---- MODULE Spec2Model ----
(***************************************************************************)
(* The two chart scripts of the repository, statement by statement:        *)
(*   scripts/generate_charts.py              ("lab3": sizes, read, write)  *)
(*   scripts/generate_compression_charts.py  ("lab4": ratio, compress,     *)
(*                                            decompress)                  *)
(* Each script is three render blocks run one after the other through      *)
(* matplotlib's pyplot interface, whose figure registry and current figure *)
(* are process-wide state.  Numbers are held in hundredths (265.49 is      *)
(* 26549) and x coordinates in thousandths of one category unit (0.25 is   *)
(* 250), so the arithmetic of the model is exact decimal arithmetic.       *)
(***************************************************************************)
EXTENDS Integers, Sequences, FiniteSets, TLC

(* Longest series the data tables are tried with. *)
MaxLen == 4

Scripts == {"lab3", "lab4"}
Blocks == 1..3

-----------------------------------------------------------------------------
(* The data tables. *)

datasets == <<"trade_data", "tweets">>
csv_sizes == <<26549, 399758>>
lsm_sizes == <<79245, 625766>>
pg_sizes == <<114617, 898794>>
lsm_read_times == <<2472, 11060>>
pg_read_times == <<693, 5258>>
lsm_write_times == <<16274, 57821>>
pg_write_times == <<29443, 152190>>

algorithms == <<"LZ77", "GZIP", "ZSTD">>
compression_ratios == <<229, 567, 485>>
compress_times == <<18732, 2267, 199>>
(* decompress_times with a time that rounds to 0.00. *)
decompress_times_zero == <<20315, 173, 0>>
decompress_times == <<20315, 173, 71>>

(* The tables of a script as written in its source, by variable name. *)
Literal(s) ==
  IF s = "lab3"
  THEN [n \in {"csv_sizes", "lsm_sizes", "pg_sizes", "lsm_read_times",
               "pg_read_times", "lsm_write_times", "pg_write_times"} |->
         CASE n = "csv_sizes" -> csv_sizes
           [] n = "lsm_sizes" -> lsm_sizes
           [] n = "pg_sizes" -> pg_sizes
           [] n = "lsm_read_times" -> lsm_read_times
           [] n = "pg_read_times" -> pg_read_times
           [] n = "lsm_write_times" -> lsm_write_times
           [] OTHER -> pg_write_times]
  ELSE [n \in {"compression_ratios", "compress_times", "decompress_times"} |->
         CASE n = "compression_ratios" -> compression_ratios
           [] n = "compress_times" -> compress_times
           [] OTHER -> decompress_times]

(* The category labels of a script and their number. *)
Categories(s) == IF s = "lab3" THEN datasets ELSE algorithms
NCat(s) == Len(Categories(s))

(* The series plotted by chart k of script s, in the order of its bar calls. *)
SeriesOf(s, k) ==
  IF s = "lab3"
  THEN CASE k = 1 -> <<"csv_sizes", "lsm_sizes", "pg_sizes">>
         [] k = 2 -> <<"lsm_read_times", "pg_read_times">>
         [] OTHER -> <<"lsm_write_times", "pg_write_times">>
  ELSE CASE k = 1 -> <<"compression_ratios">>
         [] k = 2 -> <<"compress_times">>
         [] OTHER -> <<"decompress_times">>

(* A table entered with L values instead of its own: cut short, or carried *)
(* on with its own values.                                                 *)
Resize(q, L) == [i \in 1..L |-> q[((i - 1) % Len(q)) + 1]]

(* The tables of script s with series n entered with L values. *)
Variant(s, n, L) == [m \in DOMAIN Literal(s) |->
                       IF m = n THEN Resize(Literal(s)[m], L) ELSE Literal(s)[m]]

-----------------------------------------------------------------------------
(* f'{v:.1f}' and f'{v:.2f}' of the binary double nearest to h/100.        *)

RECURSIVE BitLen(_)
BitLen(n) == IF n = 0 THEN 0 ELSE 1 + BitLen(n \div 2)

(* What is left of the fraction r/100 after n binary digits of it. *)
RECURSIVE FracTail(_, _)
FracTail(r, n) == IF n = 0 THEN r ELSE FracTail((2 * r) % 100, n - 1)

(* Binary digits of r/100 up to and including its first 1 (0 < r < 100). *)
RECURSIVE Lead(_)
Lead(r) == IF 2 * r >= 100 THEN 1 ELSE 1 + Lead(2 * r)

(* The sign of double(h/100) - h/100 under round-to-nearest-even on a      *)
(* 53-bit significand.                                                     *)
FloatCmp(h) ==
  LET ip == h \div 100
      r0 == h % 100
      n == IF ip > 0 THEN 53 - BitLen(ip)
           ELSE IF r0 > 0 THEN Lead(r0) + 52 ELSE 0
      r == FracTail(r0, n)
      lastbit == IF n = 0 THEN ip % 2 ELSE (2 * FracTail(r0, n - 1)) \div 100
  IN IF r = 0 THEN 0
     ELSE IF 2 * r > 100 THEN 1
     ELSE IF 2 * r < 100 THEN -1
     ELSE IF lastbit = 1 THEN 1 ELSE -1

Pow10(n) == IF n = 0 THEN 1 ELSE IF n = 1 THEN 10 ELSE 100

(* The text of h/100 with nd decimals (nd is 1 or 2): its integer digits   *)
(* and its nd fraction digits.  The decimal expansion of the double is     *)
(* rounded half-even; it is a tie only when the double is h/100 exactly.   *)
Format(h, nd) ==
  LET scale == Pow10(2 - nd)
      q == h \div scale
      rem == h % scale
      up == \/ 2 * rem > scale
            \/ /\ 2 * rem = scale
               /\ \/ FloatCmp(h) = 1
                  \/ FloatCmp(h) = 0 /\ q % 2 = 1
      v == IF up THEN q + 1 ELSE q
  IN [int |-> v \div Pow10(nd), frac |-> v % Pow10(nd), nd |-> nd]

-----------------------------------------------------------------------------
(* What each render block is configured with. *)

(* OutPath with the third block's path left as the second's. *)
OutPathCopyPaste(s, k) ==
  IF s = "lab3"
  THEN CASE k = 1 -> "docs/images/lab3_sizes.png"
         [] OTHER -> "docs/images/lab3_read.png"
  ELSE CASE k = 1 -> "docs/images/lab4_compression_ratio.png"
         [] OTHER -> "docs/images/lab4_compress_time.png"

(* The file chart k of script s is saved to. *)
OutPath(s, k) ==
  IF s = "lab3"
  THEN CASE k = 1 -> "docs/images/lab3_sizes.png"
         [] k = 2 -> "docs/images/lab3_read.png"
         [] OTHER -> "docs/images/lab3_write.png"
  ELSE CASE k = 1 -> "docs/images/lab4_compression_ratio.png"
         [] k = 2 -> "docs/images/lab4_compress_time.png"
         [] OTHER -> "docs/images/lab4_decompress_time.png"

(* The bar width: the value block k assigns to `width` in lab3, and        *)
(* Axes.bar's default 0.8 in lab4, which passes none.                      *)
BarWidth(s, k) ==
  IF s = "lab3" THEN (IF k = 1 THEN 250 ELSE 350) ELSE 800

(* Offset with the two-series charts shifted by width, not width/2. *)
OffsetNoHalf(s, k, j, w) ==
  IF s = "lab3"
  THEN IF k = 1 THEN (j - 2) * w
       ELSE IF j = 1 THEN 0 - w ELSE w
  ELSE 0

(* Where bar call j of chart k puts its bars, relative to the tick, for    *)
(* the width w read at the call.                                           *)
Offset(s, k, j, w) ==
  IF s = "lab3"
  THEN IF k = 1 THEN (j - 2) * w
       ELSE IF j = 1 THEN 0 - (w \div 2) ELSE w \div 2
  ELSE 0

(* np.arange(n), and equally the positions of n string categories. *)
arange(n) == [i \in 1..n |-> (i - 1) * 1000]

(* Decimals with the sizes chart formatted like the others. *)
DecimalsAllTwo(s, k) == 2

(* The decimals and the suffix of the value labels of chart k. *)
Decimals(s, k) == IF s = "lab3" /\ k = 1 THEN 1 ELSE 2
Suffix(s, k) == IF s = "lab3" THEN "" ELSE IF k = 1 THEN "x" ELSE " s"

(* The y-axis scale chart k is given. *)
YScale(s, k) == IF s = "lab4" /\ k \in {2, 3} THEN "log" ELSE "linear"

(* The lines printed to standard output. *)
ConfirmationLine(s, k) == [kind |-> "saved", chart |-> k, path |-> OutPath(s, k)]
FinalLine == [kind |-> "all", chart |-> 0, path |-> ""]

-----------------------------------------------------------------------------
(* Axes.bar: x, height and width are broadcast against each other. *)

ShapeMismatch(lx, lh) == lx # lh /\ lx # 1 /\ lh # 1
BroadcastLen(lx, lh) == IF lx = 1 THEN lh ELSE lx
At(q, i) == IF Len(q) = 1 THEN q[1] ELSE q[i]

(* The rectangles of one bar call (align='center'): left edge x - width/2. *)
BarRects(name, xs, hs, w) ==
  [i \in 1..BroadcastLen(Len(xs), Len(hs)) |->
     [series |-> name, cat |-> i, left |-> At(xs, i) - (w \div 2),
      width |-> w, height |-> At(hs, i)]]

(* ax.text(bar.get_x() + bar.get_width()/2., height, text) *)
Label(bar, txt, sfx) ==
  [x |-> bar.left + (bar.width \div 2), y |-> bar.height,
   text |-> [int |-> txt.int, frac |-> txt.frac, nd |-> txt.nd, suffix |-> sfx]]

RECURSIVE Flatten(_)
Flatten(qq) == IF qq = <<>> THEN <<>> ELSE Head(qq) \o Flatten(Tail(qq))

Min(a, b) == IF a < b THEN a ELSE b

(* A figure as plt.subplots creates it for block k. *)
NewFig(k) == [owner |-> k, bars |-> <<>>, labels |-> <<>>, ticks |-> <<>>,
              yscale |-> "linear", laidBy |-> {}]

-----------------------------------------------------------------------------
VARIABLES
  script,       \* the script that is run
  mode,         \* "script": its three blocks in order; "parallel": two of
                \* its blocks as two threads of one process
  data,         \* the data tables, by variable name
  dirWritable,  \* whether docs/images can be written to
  pc,           \* per thread: the block it is in and its next statement
  err,          \* per thread: the exception that ended it, or "none"
  figobj,       \* every Figure object created, by identity
  open,         \* pyplot's registry of open figures; the last is current
  ax,           \* the Axes bound to ax1, ax2, ax3 (the figure it is on)
  g,            \* the module globals the blocks share: width, bars1..bars3
  files,        \* the image files on disk, by path
  writes,       \* every savefig call so far
  closed,       \* every figure plt.close has closed, and the block closing it
  stdout        \* the lines printed

vars == <<script, mode, data, dirWritable, pc, err, figobj, open, ax, g,
          files, writes, closed, stdout>>

Threads == DOMAIN pc

At0(k) == [blk |-> k, stmt |-> "subplots", j |-> 0]

InitCommon ==
  /\ script \in Scripts
  /\ dirWritable \in BOOLEAN
  /\ figobj = <<>>
  /\ open = <<>>
  /\ ax = [k \in Blocks |-> 0]
  /\ g = [width |-> 0, bars |-> [j \in 1..3 |-> <<>>]]
  /\ files = [p \in {} |-> 0]
  /\ writes = <<>>
  /\ closed = <<>>
  /\ stdout = <<>>

(* The script started from the command line, with its tables as written or *)
(* with one of them entered with another number of values.                 *)
Init ==
  /\ InitCommon
  /\ mode = "script"
  /\ data \in {Variant(script, n, L) : n \in DOMAIN Literal(script), L \in 0..MaxLen}
  /\ pc = <<At0(1)>>
  /\ err = <<"none">>

(* Two render blocks of a script started as two threads, tables as written. *)
InitPar ==
  /\ InitCommon
  /\ mode = "parallel"
  /\ data = Literal(script)
  /\ pc \in {<<At0(a), At0(b)>> : a \in Blocks, b \in Blocks}
  /\ pc[1].blk < pc[2].blk
  /\ err = <<"none", "none">>

-----------------------------------------------------------------------------
(* Succ with the confirmation printed before the export. *)
SuccPrintFirst(p) ==
  CASE p.stmt = "subplots" ->
         IF script = "lab3" THEN [p EXCEPT !.stmt = "width"]
         ELSE [p EXCEPT !.stmt = "bar", !.j = 1]
    [] p.stmt = "width" -> [p EXCEPT !.stmt = "bar", !.j = 1]
    [] p.stmt = "bar" ->
         IF p.j < Len(SeriesOf(script, p.blk)) THEN [p EXCEPT !.j = p.j + 1]
         ELSE [p EXCEPT !.stmt = "axes", !.j = 0]
    [] p.stmt = "axes" -> [p EXCEPT !.stmt = "text"]
    [] p.stmt = "text" -> [p EXCEPT !.stmt = "tight_layout"]
    [] p.stmt = "tight_layout" -> [p EXCEPT !.stmt = "print"]
    [] p.stmt = "print" -> [p EXCEPT !.stmt = "savefig"]
    [] p.stmt = "savefig" -> [p EXCEPT !.stmt = "close"]
    [] p.stmt = "close" ->
         IF mode = "parallel" THEN [p EXCEPT !.stmt = "returned"]
         ELSE IF p.blk < 3 THEN At0(p.blk + 1)
         ELSE [p EXCEPT !.stmt = "final"]
    [] OTHER -> [p EXCEPT !.stmt = "done"]

(* Control flow: the statement after p. *)
Succ(p) ==
  CASE p.stmt = "subplots" ->
         IF script = "lab3" THEN [p EXCEPT !.stmt = "width"]
         ELSE [p EXCEPT !.stmt = "bar", !.j = 1]
    [] p.stmt = "width" -> [p EXCEPT !.stmt = "bar", !.j = 1]
    [] p.stmt = "bar" ->
         IF p.j < Len(SeriesOf(script, p.blk)) THEN [p EXCEPT !.j = p.j + 1]
         ELSE [p EXCEPT !.stmt = "axes", !.j = 0]
    [] p.stmt = "axes" -> [p EXCEPT !.stmt = "text"]
    [] p.stmt = "text" -> [p EXCEPT !.stmt = "tight_layout"]
    [] p.stmt = "tight_layout" -> [p EXCEPT !.stmt = "savefig"]
    [] p.stmt = "savefig" -> [p EXCEPT !.stmt = "print"]
    [] p.stmt = "print" -> [p EXCEPT !.stmt = "close"]
    [] p.stmt = "close" ->
         IF mode = "parallel" THEN [p EXCEPT !.stmt = "returned"]
         ELSE IF p.blk < 3 THEN At0(p.blk + 1)
         ELSE [p EXCEPT !.stmt = "final"]
    [] OTHER -> [p EXCEPT !.stmt = "done"]

Advance(t) == pc' = [pc EXCEPT ![t] = Succ(pc[t])] /\ UNCHANGED err

(* Raise with the exception caught and the run going on. *)
RaiseSwallowed(t, e) ==
  /\ pc' = [pc EXCEPT ![t] = Succ(pc[t])]
  /\ err' = [err EXCEPT ![t] = e]

(* An exception nobody catches ends the thread (in a script: the run). *)
Raise(t, e) ==
  /\ pc' = [pc EXCEPT ![t].stmt = "aborted"]
  /\ err' = [err EXCEPT ![t] = e]

(* plt.gcf(): the current figure; a new one is created when none is open. *)
GcfObjs(t) == IF open = <<>> THEN Append(figobj, NewFig(pc[t].blk)) ELSE figobj
GcfOpen == IF open = <<>> THEN <<Len(figobj) + 1>> ELSE open
GcfId == GcfOpen[Len(GcfOpen)]

-----------------------------------------------------------------------------
(* The statements of a render block. *)

(* figK, axK = plt.subplots(figsize=(10, 6)) *)
Subplots(t) ==
  /\ pc[t].stmt = "subplots"
  /\ figobj' = Append(figobj, NewFig(pc[t].blk))
  /\ open' = Append(open, Len(figobj) + 1)
  /\ ax' = [ax EXCEPT ![pc[t].blk] = Len(figobj) + 1]
  /\ Advance(t)
  /\ UNCHANGED <<script, mode, data, dirWritable, g, files, writes, closed, stdout>>

(* x = np.arange(len(datasets)); width = ... *)
SetWidth(t) ==
  /\ pc[t].stmt = "width"
  /\ g' = [g EXCEPT !.width = BarWidth(script, pc[t].blk)]
  /\ Advance(t)
  /\ UNCHANGED <<script, mode, data, dirWritable, figobj, open, ax, files,
                 writes, closed, stdout>>

(* barsJ = axK.bar(x + offset, series, width, ...) *)
Bar(t) ==
  /\ pc[t].stmt = "bar"
  /\ LET k == pc[t].blk
         j == pc[t].j
         name == SeriesOf(script, k)[j]
         w == IF script = "lab3" THEN g.width ELSE BarWidth(script, k)
         xs == [i \in 1..NCat(script) |-> arange(NCat(script))[i] + Offset(script, k, j, w)]
         hs == data[name]
         rects == BarRects(name, xs, hs, w)
     IN IF ShapeMismatch(Len(xs), Len(hs))
        THEN /\ Raise(t, "ValueError")
             /\ UNCHANGED <<figobj, g>>
        ELSE /\ figobj' = [figobj EXCEPT ![ax[k]].bars = @ \o rects,
                                         ![ax[k]].ticks =
                                            IF script = "lab4"
                                            THEN arange(NCat(script)) ELSE @]
             /\ g' = [g EXCEPT !.bars[j] = rects]
             /\ Advance(t)
  /\ UNCHANGED <<script, mode, data, dirWritable, open, ax, files, writes,
                 closed, stdout>>

(* axK.set_ylabel, set_title, set_xticks, legend, grid, set_yscale *)
Axes(t) ==
  /\ pc[t].stmt = "axes"
  /\ LET k == pc[t].blk
     IN figobj' = [figobj EXCEPT ![ax[k]].yscale = YScale(script, k),
                                 ![ax[k]].ticks =
                                    IF script = "lab3"
                                    THEN arange(NCat(script)) ELSE @]
  /\ Advance(t)
  /\ UNCHANGED <<script, mode, data, dirWritable, open, ax, g, files, writes,
                 closed, stdout>>

(* The value labels: lab3 walks [bars1, bars2, ...] and labels each bar    *)
(* with its own height; lab4 zips bars with the series it plotted.         *)
TextLabels(s, k) ==
  IF s = "lab3"
  THEN Flatten([jj \in 1..Len(SeriesOf(s, k)) |->
                 [i \in 1..Len(g.bars[jj]) |->
                    Label(g.bars[jj][i],
                          Format(g.bars[jj][i].height, Decimals(s, k)),
                          Suffix(s, k))]])
  ELSE [i \in 1..Min(Len(g.bars[1]), Len(data[SeriesOf(s, k)[1]])) |->
          Label(g.bars[1][i],
                Format(data[SeriesOf(s, k)[1]][i], Decimals(s, k)),
                Suffix(s, k))]

TextLoop(t) ==
  /\ pc[t].stmt = "text"
  /\ figobj' = [figobj EXCEPT ![ax[pc[t].blk]].labels =
                                 @ \o TextLabels(script, pc[t].blk)]
  /\ Advance(t)
  /\ UNCHANGED <<script, mode, data, dirWritable, open, ax, g, files, writes,
                 closed, stdout>>

(* plt.tight_layout() *)
TightLayout(t) ==
  /\ pc[t].stmt = "tight_layout"
  /\ figobj' = [GcfObjs(t) EXCEPT ![GcfId].laidBy = @ \cup {pc[t].blk}]
  /\ open' = GcfOpen
  /\ Advance(t)
  /\ UNCHANGED <<script, mode, data, dirWritable, ax, g, files, writes,
                 closed, stdout>>

(* plt.savefig(path, dpi=300, bbox_inches='tight'): the current figure is  *)
(* written to the path; opening the file fails when the directory cannot   *)
(* be written to, and nothing is written then.                             *)
SavefigWrites(t) ==
  LET path == OutPath(script, pc[t].blk)
  IN /\ files' = [p \in DOMAIN files \cup {path} |->
                    IF p = path
                    THEN [fig |-> GcfId, content |-> GcfObjs(t)[GcfId], by |-> pc[t].blk]
                    ELSE files[p]]
     /\ writes' = Append(writes, [blk |-> pc[t].blk, path |-> path, fig |-> GcfId, ok |-> TRUE])
     /\ Advance(t)

SavefigFails(t) ==
  /\ writes' = Append(writes, [blk |-> pc[t].blk, path |-> OutPath(script, pc[t].blk),
                               fig |-> GcfId, ok |-> FALSE])
  /\ Raise(t, "IOError")
  /\ UNCHANGED files

Savefig(t) ==
  /\ pc[t].stmt = "savefig"
  /\ figobj' = GcfObjs(t)
  /\ open' = GcfOpen
  /\ IF dirWritable THEN SavefigWrites(t) ELSE SavefigFails(t)
  /\ UNCHANGED <<script, mode, data, dirWritable, ax, g, closed, stdout>>

(* print("... saved: <path>") *)
PrintSaved(t) ==
  /\ pc[t].stmt = "print"
  /\ stdout' = Append(stdout, ConfirmationLine(script, pc[t].blk))
  /\ Advance(t)
  /\ UNCHANGED <<script, mode, data, dirWritable, figobj, open, ax, g, files,
                 writes, closed>>

(* CloseCurrent with the close left out. *)
CloseNothing(t) == UNCHANGED <<open, closed>>

(* plt.close(): closes the current figure, if there is one. *)
CloseCurrent(t) ==
  IF open = <<>>
  THEN UNCHANGED <<open, closed>>
  ELSE /\ open' = SubSeq(open, 1, Len(open) - 1)
       /\ closed' = Append(closed, [blk |-> pc[t].blk, fig |-> open[Len(open)]])

Close(t) ==
  /\ pc[t].stmt = "close"
  /\ CloseCurrent(t)
  /\ Advance(t)
  /\ UNCHANGED <<script, mode, data, dirWritable, figobj, ax, g, files,
                 writes, stdout>>

(* print("all charts created"), the last statement of a script *)
PrintAll(t) ==
  /\ pc[t].stmt = "final"
  /\ stdout' = Append(stdout, FinalLine)
  /\ Advance(t)
  /\ UNCHANGED <<script, mode, data, dirWritable, figobj, open, ax, g, files,
                 writes, closed>>

(* The environment: the output directory's permissions change. *)
Chmod ==
  /\ dirWritable' = ~dirWritable
  /\ UNCHANGED <<script, mode, data, pc, err, figobj, open, ax, g, files,
                 writes, closed, stdout>>

(* One statement of one thread. *)
Block ==
  \/ \E t \in Threads : Subplots(t)
  \/ \E t \in Threads : SetWidth(t)
  \/ \E t \in Threads : Bar(t)
  \/ \E t \in Threads : Axes(t)
  \/ \E t \in Threads : TextLoop(t)
  \/ \E t \in Threads : TightLayout(t)
  \/ \E t \in Threads : Savefig(t)
  \/ \E t \in Threads : PrintSaved(t)
  \/ \E t \in Threads : Close(t)

Run == Block \/ \E t \in Threads : PrintAll(t)

Next == Run \/ Chmod
NextPar == Block \/ Chmod

(* A script run. *)
Spec == Init /\ [][Next]_vars

(* A script run by an interpreter that goes on to the next statement. *)
FairSpec == Spec /\ WF_vars(Run)

(* Two blocks of a script as concurrent threads. *)
SpecPar == InitPar /\ [][NextPar]_vars

-----------------------------------------------------------------------------
(* Properties. *)

Range(q) == {q[i] : i \in DOMAIN q}

(* Chart k's tables all have one value per category. *)
Valid(k) == \A i \in DOMAIN SeriesOf(script, k) :
              Len(data[SeriesOf(script, k)[i]]) = NCat(script)

(* The run has gone past the bar calls of block k. *)
PastBars(k) ==
  \/ pc[1].stmt \in {"final", "done"}
  \/ pc[1].blk > k
  \/ pc[1].blk = k /\ pc[1].stmt \in {"axes", "text", "tight_layout", "savefig",
                                     "print", "close"}

Saved(k) == OutPath(script, k) \in DOMAIN files
FileOf(k) == files[OutPath(script, k)]

(* C1: every render block calls savefig once, on its own path: at the end  *)
(* of a run three files have been written, by blocks 1, 2, 3, at pairwise  *)
(* distinct paths, and at no point has a path been written twice or by a   *)
(* block other than its own.                                               *)
C1_OneFilePerChart ==
  /\ \A i, j \in DOMAIN writes : i # j => writes[i].path # writes[j].path
  /\ \A i, j \in DOMAIN writes : i # j => writes[i].blk # writes[j].blk
  /\ \A p \in DOMAIN files :
       /\ Cardinality({k \in Blocks : OutPath(script, k) = p}) = 1
       /\ OutPath(script, files[p].by) = p
       /\ files[p].content.owner = files[p].by
  /\ pc[1].stmt = "done" =>
       /\ Len(writes) = 3
       /\ \A i \in 1..3 : writes[i].ok /\ writes[i].blk = i
       /\ Cardinality(DOMAIN files) = 3
       /\ Cardinality({writes[i].path : i \in DOMAIN writes}) = 3

C1_Witness == pc[1].stmt = "done" /\ Len(writes) = 3 /\ data = Literal(script)

(* The bars of a saved chart at category c, and the labels a bar carries. *)
BarsAt(f, c) == {i \in DOMAIN f.bars : f.bars[i].cat = c}
LabelsOn(f, b) == {l \in DOMAIN f.labels :
                     /\ f.labels[l].x = b.left + (b.width \div 2)
                     /\ f.labels[l].y = b.height}

(* C2: in every saved chart of valid tables, each category holds one bar   *)
(* per series, of the series' value there, and each bar carries exactly    *)
(* one label: that value with 1 decimal in the sizes chart and 2 decimals  *)
(* elsewhere; the sizes chart labels trade_data 265.5, 792.5, 1146.2.      *)
C2_BarsAndLabels ==
  \A k \in Blocks : (Saved(k) /\ Valid(k)) =>
    LET f == FileOf(k).content
        S == SeriesOf(script, k)
        nd == IF script = "lab3" /\ k = 1 THEN 1 ELSE 2
    IN /\ Len(f.labels) = Len(f.bars)
       /\ \A c \in 1..NCat(script) :
            /\ Cardinality(BarsAt(f, c)) = Len(S)
            /\ \A jj \in DOMAIN S :
                 Cardinality({i \in BarsAt(f, c) :
                                /\ f.bars[i].series = S[jj]
                                /\ f.bars[i].height = data[S[jj]][c]}) = 1
            /\ \A i \in BarsAt(f, c) :
                 /\ Cardinality(LabelsOn(f, f.bars[i])) = 1
                 /\ \A l \in LabelsOn(f, f.bars[i]) :
                      LET v == data[f.bars[i].series][c]
                          txt == f.labels[l].text
                      IN /\ txt.nd = nd
                         /\ (nd = 2 => txt.int * 100 + txt.frac = v)
                         /\ (nd = 1 => /\ 10 * (txt.int * 10 + txt.frac) - v <= 5
                                       /\ v - 10 * (txt.int * 10 + txt.frac) <= 5)
       /\ (script = "lab3" /\ k = 1 /\ data = Literal("lab3")) =>
            [i \in 1..3 |-> LET l == CHOOSE l \in DOMAIN f.labels :
                                       f.labels[l].y = Literal("lab3")[S[i]][1]
                            IN <<f.labels[l].text.int, f.labels[l].text.frac>>]
              = << <<265, 5>>, <<792, 5>>, <<1146, 2>> >>

C2_Witness ==
  /\ script = "lab3" /\ Saved(1) /\ data = Literal("lab3")
  /\ Len(FileOf(1).content.bars) = 6
  /\ Len(FileOf(1).content.labels) = 6

Conf(k) == [kind |-> "saved", chart |-> k, path |-> OutPath(script, k)]

(* C3: a run ends; one that ends normally has printed the confirmations of *)
(* charts 1, 2, 3 in this order and then the final message, and nothing    *)
(* else; a confirmation is on the output only once its chart's file has    *)
(* been written, the final message only once all three have been.          *)
C3_Output ==
  /\ [](pc[1].stmt = "done" => stdout = <<Conf(1), Conf(2), Conf(3), FinalLine>>)
  /\ [](\A i \in DOMAIN stdout :
          stdout[i].kind = "saved" =>
            /\ stdout[i].chart = i
            /\ Saved(i)
            /\ \E w \in DOMAIN writes : writes[w].blk = i /\ writes[w].ok)
  /\ [](FinalLine \in Range(stdout) => \A k \in Blocks : Saved(k))
  /\ <>(pc[1].stmt \in {"done", "aborted"})

C3_Witness == pc[1].stmt = "done" /\ Len(stdout) = 4 /\ stdout[4] = FinalLine

(* C4: a chart with a table whose length is not the number of categories   *)
(* never gets past its bar calls.                                          *)
C4_MismatchRaises == \A k \in Blocks : ~Valid(k) => ~PastBars(k)

(* C5: for a chart with a table whose length is not the number of          *)
(* categories, savefig is never called, no file is written at its path and *)
(* no confirmation is printed.                                             *)
C5_NoFileOnMalformed ==
  \A k \in Blocks : ~Valid(k) =>
    /\ ~Saved(k)
    /\ \A w \in DOMAIN writes : writes[w].blk # k
    /\ Conf(k) \notin Range(stdout)

(* C6: once the export of chart k has failed on the directory, the run is  *)
(* over: savefig was called once for k and never after, the output holds   *)
(* the confirmations of charts 1..k-1 and nothing else, the files are      *)
(* those of charts 1..k-1, each as its own block wrote it, and no figure   *)
(* of a later chart exists.                                                *)
C6_IOErrorFatal ==
  err[1] = "IOError" =>
    LET k == pc[1].blk
    IN /\ pc[1].stmt = "aborted"
       /\ stdout = [i \in 1..(k - 1) |-> Conf(i)]
       /\ DOMAIN files = {OutPath(script, i) : i \in 1..(k - 1)}
       /\ \A i \in 1..(k - 1) : FileOf(i).by = i /\ FileOf(i).content.owner = i
       /\ Len(writes) = k
       /\ \A i \in 1..k : writes[i].blk = i /\ (writes[i].ok <=> i < k)
       /\ Len(figobj) = k

C6_Witness ==
  /\ err[1] = "IOError" /\ pc[1].blk = 2 /\ pc[1].stmt = "aborted"
  /\ Saved(1) /\ Len(stdout) = 1 /\ dirWritable

(* C7: with two blocks run as threads, every file holds the figure of the  *)
(* block that saved it, and every figure is laid out and closed only by    *)
(* the block that created it.                                              *)
C7_Isolated ==
  /\ \A p \in DOMAIN files : files[p].content.owner = files[p].by
  /\ \A f \in DOMAIN figobj : figobj[f].laidBy \subseteq {figobj[f].owner}
  /\ \A i \in DOMAIN closed : figobj[closed[i].fig].owner = closed[i].blk

(* C8: a figure's y-axis is logarithmic only in charts 2 and 3 of lab4,    *)
(* these two are saved with it logarithmic, and every bar on a logarithmic *)
(* axis has a height above zero.                                           *)
C8_LogPositive ==
  /\ \A f \in DOMAIN figobj :
       figobj[f].yscale = "log" =>
         /\ script = "lab4" /\ figobj[f].owner \in {2, 3}
         /\ \A i \in DOMAIN figobj[f].bars : figobj[f].bars[i].height > 0
  /\ \A p \in DOMAIN files :
       /\ files[p].content.yscale = "log" <=> (script = "lab4" /\ files[p].by \in {2, 3})
       /\ files[p].content.yscale = "log" =>
            /\ files[p].content.bars # <<>>
            /\ \A i \in DOMAIN files[p].content.bars :
                 files[p].content.bars[i].height > 0

C8_Witness ==
  /\ script = "lab4" /\ Saved(3)
  /\ FileOf(3).content.yscale = "log"
  /\ Len(FileOf(3).content.bars) = 3

(* The bar of series jj at category c in a saved chart. *)
BarOf(f, S, jj, c) ==
  f.bars[CHOOSE i \in DOMAIN f.bars : f.bars[i].series = S[jj] /\ f.bars[i].cat = c]

C10_OneFigureOpen ==
  /\ Len(open) <= 1
  /\ pc[1].stmt \in {"subplots", "final", "done"} => open = <<>>
  /\ \A i \in DOMAIN closed :
       /\ figobj[closed[i].fig].owner = closed[i].blk
       /\ closed[i].fig = ax[closed[i].blk]
  /\ pc[1].stmt = "done" => Len(closed) = 3

C10_Witness == pc[1].stmt = "done" /\ Len(closed) = 3 /\ open = <<>>

====
